---- MODULE Spec2Model ----
(***************************************************************************)
(* Model of Code/server.py: the federated-learning server that creates a   *)
(* CKKS context, exports its public part, and serves num_rounds rounds in  *)
(* which the driver calls aggregate_fit and then aggregate_evaluate.       *)
(*                                                                         *)
(* Real numbers are exact rationals <<numerator, denominator>> in lowest   *)
(* terms; CKKS approximation error and float rounding are not modelled.    *)
(***************************************************************************)
EXTENDS Integers, Sequences, FiniteSets, TLC

\* ------------------------------------------------------------------ bounds
MaxRounds == 2
MaxClients == 2
MaxPayloads == 2
MaxReports == 2

\* ------------------------------------------------------------------- state
VARIABLES
    pc,                        \* position in the script / the driver's loop
    num_rounds,                \* line 138
    rnd,                       \* the round the driver is in
    server_context,            \* line 20
    ckks_file,                 \* contents of ckks_context.tenseal
    loss_per_round, accuracy_per_round,
    train_loss_per_round, train_accuracy_per_round,
    test_loss_per_round, test_accuracy_per_round,
    last_call                  \* the most recent aggregate_* call: arguments and outcome

series == <<loss_per_round, accuracy_per_round, train_loss_per_round,
            train_accuracy_per_round, test_loss_per_round, test_accuracy_per_round>>

vars == <<pc, num_rounds, rnd, server_context, ckks_file, series, last_call>>

\* ------------------------------------------------------------ arithmetic
RECURSIVE GCD(_, _)
GCD(a, b) == IF b = 0 THEN a ELSE GCD(b, a % b)

\* Python's true division n / d of non-negative numbers, d > 0.
Frac(n, d) == LET g == GCD(n, d) IN <<n \div g, d \div g>>

Zero == <<0, 1>>

SeqsUpTo(S, k) == UNION {[1..n -> S] : n \in 0..k}

\* ------------------------------------------------------ encryption context
NoContext == [scheme |-> "none", poly_modulus_degree |-> 0,
              coeff_mod_bit_sizes |-> <<>>, global_scale_bits |-> 0,
              public_key |-> FALSE, secret_key |-> FALSE, galois_keys |-> FALSE]

create_ckks_context ==
    [scheme |-> "CKKS", poly_modulus_degree |-> 16384,
     coeff_mod_bit_sizes |-> <<60, 40, 40, 60>>, global_scale_bits |-> 40,
     public_key |-> TRUE, secret_key |-> TRUE, galois_keys |-> TRUE]

\* A serialization that ignores the flag.
serialize_leaky(context, save_secret_key) == context

\* context.serialize(save_secret_key=flag): a copy; the secret key is kept
\* only when the flag is set.
serialize(context, save_secret_key) ==
    [context EXCEPT !.secret_key = context.secret_key /\ save_secret_key]

\* enc_vector.decrypt() needs a CKKS context that holds the secret key.
Decryptable(context) == context.scheme = "CKKS" /\ context.secret_key

\* ------------------------------------------------------- client payloads
\* One element of Parameters.tensors.  type is the Python type of the
\* element; ciphertext says whether the bytes are a serialized CKKS vector
\* of the server's parameters, and vec is the vector it encrypts.
Vectors == {<<1>>, <<3>>, <<2, 4>>}

Ciphertext(v) == [type |-> "bytes", ciphertext |-> TRUE, vec |-> v]
Blob == [type |-> "bytes", ciphertext |-> FALSE, vec |-> <<>>]
NdArray == [type |-> "ndarray", ciphertext |-> FALSE, vec |-> <<>>]
Text == [type |-> "str", ciphertext |-> FALSE, vec |-> <<>>]

Payloads == {Ciphertext(v) : v \in Vectors} \cup {Blob, NdArray, Text}

\* fit_res.parameters: a Parameters envelope, or anything else (None).
None == [kind |-> "None", tensors |-> <<>>]
Parameters(t) == [kind |-> "Parameters", tensors |-> t]

FitRes(p) == [parameters |-> p]

ClientParameters(b) == {None} \cup {Parameters(t) : t \in SeqsUpTo(Payloads, b)}

\* All result lists of exactly c clients carrying at most b tensors in total.
RECURSIVE ResultsOf(_, _)
ResultsOf(c, b) ==
    IF c = 0 THEN {<<>>}
    ELSE UNION {{<<FitRes(p)>> \o r : r \in ResultsOf(c - 1, b - Len(p.tensors))} :
                p \in ClientParameters(b)}

FitInputs == UNION {ResultsOf(c, MaxPayloads) : c \in 0..MaxClients}

\* ----------------------------------------------------------- aggregate_fit
Returned(p) == [outcome |-> "return", parameters |-> p, metrics |-> {}]
Raised == [outcome |-> "raise", parameters |-> None, metrics |-> {}]

pickle_dumps(w) == [type |-> "bytes", ciphertext |-> FALSE, vec |-> <<>>]

\* One iteration of the loop body, lines 55-66: the decrypted tensor as a
\* one-element sequence, or <<>> when the element is skipped.
fit_decrypt(context, w0) ==
    LET w == IF w0.type \in {"list", "ndarray"} THEN pickle_dumps(w0) ELSE w0
    IN  IF w.type # "bytes" THEN <<>>
        ELSE IF w.ciphertext /\ Decryptable(context) THEN <<w.vec>>
        ELSE <<>>

RECURSIVE fit_loop(_, _, _)
fit_loop(context, weights, i) ==
    IF i > Len(weights) THEN <<>>
    ELSE fit_decrypt(context, weights[i]) \o fit_loop(context, weights, i + 1)

\* torch.stack raises unless every tensor has the shape of the first.
torch_stack_ok(sample_weights) ==
    \A i \in 1..Len(sample_weights) : Len(sample_weights[i]) = Len(sample_weights[1])

RECURSIVE SumAt(_, _, _)
SumAt(vs, k, i) == IF i > Len(vs) THEN 0 ELSE vs[i][k] + SumAt(vs, k, i + 1)

\* torch.mean(torch.stack(sample_weights), dim=0)
torch_mean(sample_weights) ==
    [k \in 1..Len(sample_weights[1]) |-> Frac(SumAt(sample_weights, k, 1), Len(sample_weights))]

ndarrays_to_parameters(encrypted_weights) == Parameters(encrypted_weights)

aggregate_fit(context, results) ==
    LET serialized_weights_list == [i \in 1..Len(results) |-> results[i].parameters]
    IN  IF serialized_weights_list = <<>> THEN Returned(None)
        ELSE LET first_params == serialized_weights_list[1]
             IN  IF first_params.kind # "Parameters" THEN Returned(None)
                 ELSE LET sample_weights == fit_loop(context, first_params.tensors, 1)
                      IN  IF sample_weights = <<>> THEN Returned(None)
                          ELSE IF ~torch_stack_ok(sample_weights) THEN Raised
                          ELSE Returned(ndarrays_to_parameters(
                                   <<Ciphertext(torch_mean(sample_weights))>>))

\* ------------------------------------------------------ aggregate_evaluate
\* An evaluation report: status code, loss, metrics["accuracy"], num_examples.
Statuses == {"OK", "EVALUATE_NOT_IMPLEMENTED"}
Scores == {[loss |-> 1, accuracy |-> 1], [loss |-> 3, accuracy |-> 0]}
SampleCounts == {0, 1, 2}

EvalRes(st, sc, n) ==
    [status |-> st, loss |-> sc.loss, accuracy |-> sc.accuracy, num_examples |-> n]

Reports == {EvalRes(st, sc, n) : st \in Statuses, sc \in Scores, n \in SampleCounts}

EvalInputs == SeqsUpTo(Reports, MaxReports)

\* Accumulators that are not fresh in each call: the sample count goes on
\* from the rounds already recorded.
InitAccCarried ==
    [total_loss |-> 0, total_accuracy |-> 0, total_train_loss |-> 0,
     total_train_accuracy |-> 0, total_test_loss |-> 0,
     total_test_accuracy |-> 0, total_samples |-> Len(loss_per_round)]

\* Line 79: the accumulators, local to one call.
InitAcc ==
    [total_loss |-> 0, total_accuracy |-> 0, total_train_loss |-> 0,
     total_train_accuracy |-> 0, total_test_loss |-> 0,
     total_test_accuracy |-> 0, total_samples |-> 0]

\* The state of one call: the accumulators, what the loop has appended to
\* the four train/test series so far, and whether a division raised.
InitFrame ==
    [acc |-> InitAcc, train_loss |-> <<>>, train_accuracy |-> <<>>,
     test_loss |-> <<>>, test_accuracy |-> <<>>, raised |-> FALSE]

\* Lines 83-102.  The divisions of lines 93-96 raise ZeroDivisionError when
\* total_samples is still 0.
RECURSIVE eval_loop(_, _, _)
eval_loop(results, i, fr) ==
    IF i > Len(results) \/ fr.raised THEN fr
    ELSE LET eval_res == results[i]
         IN  IF eval_res.status # "OK" THEN eval_loop(results, i + 1, fr)
             ELSE LET a == [fr.acc EXCEPT
                              !.total_loss = @ + eval_res.loss * eval_res.num_examples,
                              !.total_accuracy = @ + eval_res.accuracy * eval_res.num_examples,
                              !.total_samples = @ + eval_res.num_examples]
                  IN  IF a.total_samples = 0
                      THEN [fr EXCEPT !.acc = a, !.raised = TRUE]
                      ELSE eval_loop(results, i + 1,
                             [acc |-> a,
                              train_loss |-> Append(fr.train_loss, Frac(a.total_train_loss, a.total_samples)),
                              train_accuracy |-> Append(fr.train_accuracy, Frac(a.total_train_accuracy, a.total_samples)),
                              test_loss |-> Append(fr.test_loss, Frac(a.total_test_loss, a.total_samples)),
                              test_accuracy |-> Append(fr.test_accuracy, Frac(a.total_test_accuracy, a.total_samples)),
                              raised |-> FALSE])

EvalReturned(l, a) == [outcome |-> "return", loss |-> l, accuracy |-> a]
EvalRaised == [outcome |-> "raise", loss |-> Zero, accuracy |-> Zero]

\* The whole call: its return value and what it appends to each series.
aggregate_evaluate(results) ==
    LET fr == eval_loop(results, 1, InitFrame)
        a == fr.acc
    IN  IF fr.raised
        THEN [ret |-> EvalRaised, loss |-> <<>>, accuracy |-> <<>>,
              train_loss |-> fr.train_loss, train_accuracy |-> fr.train_accuracy,
              test_loss |-> fr.test_loss, test_accuracy |-> fr.test_accuracy]
        ELSE IF a.total_samples > 0
        THEN [ret |-> EvalReturned(Frac(a.total_loss, a.total_samples),
                                   Frac(a.total_accuracy, a.total_samples)),
              loss |-> <<Frac(a.total_loss, a.total_samples)>>,
              accuracy |-> <<Frac(a.total_accuracy, a.total_samples)>>,
              train_loss |-> Append(fr.train_loss, Frac(a.total_train_loss, a.total_samples)),
              train_accuracy |-> Append(fr.train_accuracy, Frac(a.total_train_accuracy, a.total_samples)),
              test_loss |-> Append(fr.test_loss, Frac(a.total_test_loss, a.total_samples)),
              test_accuracy |-> Append(fr.test_accuracy, Frac(a.total_test_accuracy, a.total_samples))]
        ELSE [ret |-> EvalReturned(Zero, Zero), loss |-> <<>>, accuracy |-> <<>>,
              train_loss |-> fr.train_loss, train_accuracy |-> fr.train_accuracy,
              test_loss |-> fr.test_loss, test_accuracy |-> fr.test_accuracy]

trim_list(lst, length) == IF Len(lst) > length THEN SubSeq(lst, 1, length) ELSE lst

\* ------------------------------------------------------------- the script
NoCall == [op |-> "none", rnd |-> 0, args |-> <<>>, ret |-> <<>>]

Init ==
    /\ pc = "create_context"
    /\ num_rounds \in 1..MaxRounds
    /\ rnd = 0
    /\ server_context = NoContext
    /\ ckks_file = NoContext
    /\ loss_per_round = <<>>
    /\ accuracy_per_round = <<>>
    /\ train_loss_per_round = <<>>
    /\ train_accuracy_per_round = <<>>
    /\ test_loss_per_round = <<>>
    /\ test_accuracy_per_round = <<>>
    /\ last_call = NoCall

\* Line 20.
CreateContext ==
    /\ pc = "create_context"
    /\ server_context' = create_ckks_context
    /\ pc' = "export_context"
    /\ UNCHANGED <<num_rounds, rnd, ckks_file, series, last_call>>

\* Lines 23-24.
ExportContext ==
    /\ pc = "export_context"
    /\ ckks_file' = serialize(server_context, FALSE)
    /\ pc' = "start_server"
    /\ UNCHANGED <<num_rounds, rnd, server_context, series, last_call>>

\* Lines 139-147: the driver enters round 1.
StartServer ==
    /\ pc = "start_server"
    /\ rnd' = 1
    /\ pc' = "fit"
    /\ UNCHANGED <<num_rounds, server_context, ckks_file, series, last_call>>

\* The driver's fit phase of a round: SecureFedAvg.aggregate_fit.  An
\* exception leaves start_server and ends the script.
FitRound ==
    /\ pc = "fit"
    /\ \E results \in FitInputs :
         LET ret == aggregate_fit(server_context, results)
         IN  /\ last_call' = [op |-> "aggregate_fit", rnd |-> rnd, args |-> results, ret |-> ret]
             /\ pc' = IF ret.outcome = "raise" THEN "crashed" ELSE "fit_returned"
    /\ UNCHANGED <<num_rounds, rnd, server_context, ckks_file, series>>

\* The driver takes the fit result and goes on to the evaluate phase.
AfterFit ==
    /\ pc = "fit_returned"
    /\ last_call' = NoCall
    /\ pc' = "evaluate"
    /\ UNCHANGED <<num_rounds, rnd, server_context, ckks_file, series>>

\* The driver's evaluate phase of a round: SecureFedAvg.aggregate_evaluate.
EvaluateRound ==
    /\ pc = "evaluate"
    /\ \E results \in EvalInputs :
         LET out == aggregate_evaluate(results)
         IN  /\ last_call' = [op |-> "aggregate_evaluate", rnd |-> rnd, args |-> results, ret |-> out.ret]
             /\ loss_per_round' = loss_per_round \o out.loss
             /\ accuracy_per_round' = accuracy_per_round \o out.accuracy
             /\ train_loss_per_round' = train_loss_per_round \o out.train_loss
             /\ train_accuracy_per_round' = train_accuracy_per_round \o out.train_accuracy
             /\ test_loss_per_round' = test_loss_per_round \o out.test_loss
             /\ test_accuracy_per_round' = test_accuracy_per_round \o out.test_accuracy
             /\ pc' = IF out.ret.outcome = "raise" THEN "crashed" ELSE "evaluate_returned"
    /\ UNCHANGED <<num_rounds, rnd, server_context, ckks_file>>

\* The driver's loop over range(1, num_rounds + 1): the next round, or
\* start_server returns and the script goes on at line 153.
AfterEvaluate ==
    /\ pc = "evaluate_returned"
    /\ last_call' = NoCall
    /\ \/ rnd < num_rounds /\ rnd' = rnd + 1 /\ pc' = "fit"
       \/ rnd >= num_rounds /\ rnd' = rnd /\ pc' = "trim"
    /\ UNCHANGED <<num_rounds, server_context, ckks_file, series>>

\* Lines 153-156, after start_server has returned.
TrimLists ==
    /\ pc = "trim"
    /\ train_loss_per_round' = trim_list(train_loss_per_round, num_rounds)
    /\ train_accuracy_per_round' = trim_list(train_accuracy_per_round, num_rounds)
    /\ test_loss_per_round' = trim_list(test_loss_per_round, num_rounds)
    /\ test_accuracy_per_round' = trim_list(test_accuracy_per_round, num_rounds)
    /\ pc' = "plot"
    /\ UNCHANGED <<num_rounds, rnd, server_context, ckks_file, loss_per_round,
                   accuracy_per_round, last_call>>

Next ==
    \/ CreateContext
    \/ ExportContext
    \/ StartServer
    \/ FitRound
    \/ AfterFit
    \/ EvaluateRound
    \/ AfterEvaluate
    \/ TrimLists

Spec == Init /\ [][Next]_vars

\* ================================================================ claims
\* Reference quantities, stated over a call's arguments alone.
RECURSIVE Repeat(_, _)
Repeat(x, k) == IF k = 0 THEN <<>> ELSE <<x>> \o Repeat(x, k - 1)

IsPrefix(s, t) == Len(s) <= Len(t) /\ SubSeq(t, 1, Len(s)) = s

IsFit == last_call.op = "aggregate_fit"
IsEvaluate == last_call.op = "aggregate_evaluate"

OKReports(reports) == {i \in 1..Len(reports) : reports[i].status = "OK"}

RECURSIVE WeightedLoss(_, _)
WeightedLoss(reports, S) ==
    IF S = {} THEN 0
    ELSE LET i == CHOOSE x \in S : TRUE
         IN  reports[i].loss * reports[i].num_examples + WeightedLoss(reports, S \ {i})

RECURSIVE WeightedAccuracy(_, _)
WeightedAccuracy(reports, S) ==
    IF S = {} THEN 0
    ELSE LET i == CHOOSE x \in S : TRUE
         IN  reports[i].accuracy * reports[i].num_examples + WeightedAccuracy(reports, S \ {i})

RECURSIVE Samples(_, _)
Samples(reports, S) ==
    IF S = {} THEN 0
    ELSE LET i == CHOOSE x \in S : TRUE
         IN  reports[i].num_examples + Samples(reports, S \ {i})

OKSamples(reports) == Samples(reports, OKReports(reports))

WeightedResult(reports) ==
    LET ok == OKReports(reports)
        n == Samples(reports, ok)
    IN  EvalReturned(Frac(WeightedLoss(reports, ok), n), Frac(WeightedAccuracy(reports, ok), n))

\* A client update in the sense of the data model: an envelope carrying
\* one payload.
IsUpdate(fit_res) ==
    fit_res.parameters.kind = "Parameters" /\ Len(fit_res.parameters.tensors) = 1

IsValidPayload(w) == w.type = "bytes" /\ w.ciphertext

IsValidUpdate(fit_res) == IsUpdate(fit_res) /\ IsValidPayload(fit_res.parameters.tensors[1])

UpdateVector(fit_res) == fit_res.parameters.tensors[1].vec

ValidClients(results) == {i \in 1..Len(results) : IsValidUpdate(results[i])}

EqualLengths(results, S) ==
    \A i, j \in S : Len(UpdateVector(results[i])) = Len(UpdateVector(results[j]))

RECURSIVE ElementSum(_, _, _)
ElementSum(results, S, k) ==
    IF S = {} THEN 0
    ELSE LET i == CHOOSE x \in S : TRUE
         IN  UpdateVector(results[i])[k] + ElementSum(results, S \ {i}, k)

\* The encryption of the unweighted elementwise mean of the updates of the
\* clients in S.
MeanUpdate(results, S) ==
    LET any == CHOOSE x \in S : TRUE
    IN  Returned(Parameters(<<Ciphertext(
            [k \in 1..Len(UpdateVector(results[any])) |->
                Frac(ElementSum(results, S, k), Cardinality(S))])>>))

\* C1: whenever the OK reports of a call carry more than zero examples in
\* total, aggregate_evaluate returns the example-weighted averages of loss
\* and accuracy over exactly the OK reports.
C1_WeightedAverage ==
    (IsEvaluate /\ OKSamples(last_call.args) > 0)
        => last_call.ret = WeightedResult(last_call.args)

\* C2: with no reports, or with reports whose num_examples are all zero,
\* aggregate_evaluate returns (0.0, {accuracy: 0.0}) and does not raise.
C2_ZeroSamples ==
    (IsEvaluate /\ \A i \in 1..Len(last_call.args) : last_call.args[i].num_examples = 0)
        => last_call.ret = EvalReturned(Zero, Zero)

\* C3: with several clients, each sending a valid ciphertext of a vector of
\* the same length, aggregate_fit returns the encryption of the unweighted
\* elementwise mean over all clients.
C3_MeanOfAllClients ==
    (/\ IsFit
     /\ Len(last_call.args) >= 2
     /\ ValidClients(last_call.args) = 1..Len(last_call.args)
     /\ EqualLengths(last_call.args, ValidClients(last_call.args)))
        => last_call.ret = MeanUpdate(last_call.args, ValidClients(last_call.args))

\* C4: when exactly one client's update is malformed and the others are
\* valid, aggregate_fit returns the mean of the valid updates, wherever the
\* malformed one stands in the list.
C4_MalformedSkipped ==
    (/\ IsFit
     /\ \A i \in 1..Len(last_call.args) : IsUpdate(last_call.args[i])
     /\ Cardinality(ValidClients(last_call.args)) = Len(last_call.args) - 1
     /\ ValidClients(last_call.args) # {}
     /\ EqualLengths(last_call.args, ValidClients(last_call.args)))
        => last_call.ret = MeanUpdate(last_call.args, ValidClients(last_call.args))

\* No payload of any client in the round decrypts.
NothingDecrypts(results) ==
    \A i \in 1..Len(results) :
        \A k \in 1..Len(results[i].parameters.tensors) :
            ~IsValidPayload(results[i].parameters.tensors[k])

NoUpdateCase(results) ==
    \/ results = <<>>
    \/ results[1].parameters.kind # "Parameters"
    \/ NothingDecrypts(results)

\* C5: aggregate_fit returns (None, {}) exactly when the results are empty,
\* the collection is not a parameter envelope, or no payload decrypts; in
\* every other case it returns a re-encrypted update with empty metrics.
C5_NoUpdateExactly ==
    IsFit =>
        /\ (last_call.ret = Returned(None)) <=> NoUpdateCase(last_call.args)
        /\ ~NoUpdateCase(last_call.args) =>
              /\ last_call.ret.outcome = "return"
              /\ last_call.ret.parameters.kind = "Parameters"
              /\ last_call.ret.metrics = {}

\* The number of aggregate_evaluate calls that have returned so far.
RoundsEvaluated ==
    IF pc \in {"fit", "fit_returned", "evaluate"} THEN rnd - 1 ELSE rnd

\* C6: after R aggregate_evaluate calls every one of the six series has
\* been appended to exactly once per call, so each has length R.
C6_OneEntryPerRound ==
    pc \in {"fit", "fit_returned", "evaluate", "evaluate_returned", "trim"} =>
        /\ Len(loss_per_round) = RoundsEvaluated
        /\ Len(accuracy_per_round) = RoundsEvaluated
        /\ Len(train_loss_per_round) = RoundsEvaluated
        /\ Len(train_accuracy_per_round) = RoundsEvaluated
        /\ Len(test_loss_per_round) = RoundsEvaluated
        /\ Len(test_accuracy_per_round) = RoundsEvaluated

\* C7: the exported snapshot never holds the secret key and cannot decrypt
\* any payload, it keeps the scheme parameters, it is written before the
\* first aggregation, and the server's own context keeps its secret key.
C7_PublicSnapshot ==
    /\ ckks_file # NoContext =>
          /\ ~ckks_file.secret_key
          /\ \A w \in Payloads : fit_decrypt(ckks_file, w) = <<>>
          /\ ckks_file.scheme = server_context.scheme
          /\ ckks_file.poly_modulus_degree = server_context.poly_modulus_degree
          /\ ckks_file.coeff_mod_bit_sizes = server_context.coeff_mod_bit_sizes
          /\ ckks_file.global_scale_bits = server_context.global_scale_bits
          /\ ckks_file.public_key /\ ckks_file.galois_keys
    /\ pc \notin {"create_context", "export_context"} => ckks_file # NoContext
    /\ pc # "create_context" =>
          /\ server_context.secret_key
          /\ \A v \in Vectors : fit_decrypt(server_context, Ciphertext(v)) = <<v>>

\* A round's aggregation has decrypted a client payload after the export.
C7_Witness ==
    /\ pc = "fit_returned"
    /\ last_call.ret.parameters.kind = "Parameters"
    /\ ckks_file # NoContext
    /\ ~ckks_file.secret_key

\* C8: when the first element of the results carries a parameter envelope,
\* aggregate_fit returns a value and raises nothing.
C8_FitNeverRaises ==
    (/\ IsFit
     /\ last_call.args # <<>>
     /\ last_call.args[1].parameters.kind = "Parameters")
        => last_call.ret.outcome = "return"

\* C9: the context is never reassigned once created, aggregate_fit leaves
\* the six series alone, and in every step each series keeps its previous
\* contents as a prefix.
C9_Frame ==
    [][/\ server_context # NoContext => server_context' = server_context
       /\ pc = "fit" => series' = series
       /\ IsPrefix(loss_per_round, loss_per_round')
       /\ IsPrefix(accuracy_per_round, accuracy_per_round')
       /\ IsPrefix(train_loss_per_round, train_loss_per_round')
       /\ IsPrefix(train_accuracy_per_round, train_accuracy_per_round')
       /\ IsPrefix(test_loss_per_round, test_loss_per_round')
       /\ IsPrefix(test_accuracy_per_round, test_accuracy_per_round')]_vars

\* What one aggregate_evaluate call does, as a function of its reports and
\* of nothing else.  The call raises when its first OK report has no
\* examples.
FirstOK(reports) ==
    CHOOSE i \in OKReports(reports) : \A j \in OKReports(reports) : i <= j

RoundRaises(reports) ==
    OKReports(reports) # {} /\ reports[FirstOK(reports)].num_examples = 0

RoundReturn(reports) ==
    IF RoundRaises(reports) THEN EvalRaised
    ELSE IF OKSamples(reports) > 0 THEN WeightedResult(reports)
    ELSE EvalReturned(Zero, Zero)

RoundHeadline(reports) ==
    IF ~RoundRaises(reports) /\ OKSamples(reports) > 0
    THEN [loss |-> <<RoundReturn(reports).loss>>, accuracy |-> <<RoundReturn(reports).accuracy>>]
    ELSE [loss |-> <<>>, accuracy |-> <<>>]

RoundPhaseEntries(reports) ==
    IF ~RoundRaises(reports) /\ OKSamples(reports) > 0
    THEN Repeat(Zero, Cardinality(OKReports(reports)) + 1)
    ELSE <<>>

\* C10: the value a round's aggregate_evaluate returns and the entries it
\* appends to the series are determined by that round's reports alone,
\* whatever the earlier rounds were.
C10_RoundScoped ==
    [][pc = "evaluate" =>
        LET reports == last_call'.args
        IN  /\ last_call'.ret = RoundReturn(reports)
            /\ loss_per_round' = loss_per_round \o RoundHeadline(reports).loss
            /\ accuracy_per_round' = accuracy_per_round \o RoundHeadline(reports).accuracy
            /\ train_loss_per_round' = train_loss_per_round \o RoundPhaseEntries(reports)
            /\ train_accuracy_per_round' = train_accuracy_per_round \o RoundPhaseEntries(reports)
            /\ test_loss_per_round' = test_loss_per_round \o RoundPhaseEntries(reports)
            /\ test_accuracy_per_round' = test_accuracy_per_round \o RoundPhaseEntries(reports)]_vars

\* A second round has returned a result that differs from the first
\* round's.
C10_Witness ==
    /\ pc = "evaluate_returned"
    /\ rnd = 2
    /\ Len(loss_per_round) = 2
    /\ loss_per_round[1] # loss_per_round[2]
    /\ last_call.ret.loss = loss_per_round[2]

====
